---- MODULE Spec2Model ----
(***************************************************************************)
(* Microchip CoreSPI controller driver (drivers/spi/spi-microchip-core.c). *)
(* The driver state (struct mchp_corespi), the register block and the      *)
(* controller's two FIFOs are the state; transfer_one, the interrupt       *)
(* handler are the operations; the controller shifting frames and raising  *)
(* interrupt causes is the environment.                                    *)
(***************************************************************************)
EXTENDS Integers, Sequences, FiniteSets, TLC

\* ------------------------------------------------------------ constants
FIFO_DEPTH == 32
CLK_GEN_MODE1_MAX == 255
CLK_GEN_MODE0_MAX == 15
CLK_GEN_MIN == 0
DEFAULT_FRAMESIZE == 8
MAX_CS == 8
INT_TXDONE == 1
INT_RXRDY == 2
INT_RX_CHANNEL_OVERFLOW == 4
INT_TX_CHANNEL_UNDERRUN == 8
INT_ENABLE_MASK == 240
SSEL_DIRECT == 256
SSELOUT == 512
EINVAL == 22
FILLER == 170
U16 == 65536
\* a NULL buffer pointer; a present buffer is its cursor, the offset from
\* the start of the caller's buffer
NULL == -1

\* ------------------------------------------------------------ bounds
\* the longest transfer the caller submits
MaxLen == 70
\* how many fault causes the controller raises in one run
MaxFaults == 1
\* transfers the caller submits in one run
MaxSessions == 2
\* frames the controller shifts in one step
Burst == 20
\* the completion counter saturates here
MaxFinal == 2
\* source clock rates and targets 1..MaxClk of the divisor search
MaxClk == 40
MaxCount == 100

Min(a, b) == IF a < b THEN a ELSE b

\* bit b (a power of two) of v
HasBit(v, b) == (v \div b) % 2 = 1
OrBit(v, b) == IF HasBit(v, b) THEN v ELSE v + b
ClrBit(v, b) == IF HasBit(v, b) THEN v - b ELSE v

\* include/linux/bitops.h fls(): position of the most significant set bit
RECURSIVE fls(_)
fls(x) == IF x = 0 THEN 0 ELSE 1 + fls(x \div 2)

DIV_ROUND_UP(n, d) == (n + d - 1) \div d

RECURSIVE Pow2(_)
Pow2(n) == IF n = 0 THEN 1 ELSE 2 * Pow2(n - 1)

\* the caller's transmit buffer: byte k (1-based) of [0x01, 0x02, ...]
TxData(k) == k % 256

\* the bus peer: a loopback that returns every frame it is sent
Echo(b) == b

VARIABLES
  clk_rate,     \* clk_get_rate(spi->clk)
  dev,          \* struct mchp_corespi, the register block, the FIFOs and
                \* (dev.log) what the session did to the FIFO registers
  xfer,         \* the spi_transfer being run
  sess,         \* Idle | Streaming | Complete | Faulted, as the caller sees it
  ret,          \* what the last transfer_one returned
  finalized,    \* spi_finalize_current_transfer calls since transfer_one
  status,       \* the status the completion carries to the caller:
                \* none | in_progress | ok | failed
  faults,       \* fault causes raised so far
  pc,           \* where the caller is inside transfer_one
  nsess         \* transfer_one calls so far

vars == <<clk_rate, dev, xfer, sess, ret, finalized, status, faults, pc, nsess>>

\* ------------------------------------------------------------ registers
\* the controller out of hardware reset, and the driver's zeroed devdata
ResetDev ==
  [ tx_buf |-> NULL, rx_buf |-> NULL, clk_gen |-> 0, clk_mode |-> 0,
    tx_len |-> 0, rx_len |-> 0, pending |-> 0, i |-> 0,
    control |-> [ enable |-> 0, master |-> 0, mode |-> 0, ints |-> 0,
                  framecnt |-> 0, clkmode |-> 0, sps |-> 0, bigfifo |-> 0,
                  reset |-> 1 ],
    frame_size |-> 0, reg_clk_gen |-> 0, slave_select |-> 0, framesup |-> 0,
    mis |-> 0, tx_fifo |-> <<>>, rx_fifo |-> <<>>, frames_sent |-> 0,
    rx_mem |-> <<>>, last_cs |-> <<>>, len |-> 0, control_local |-> NULL,
    log |-> [ tx |-> <<>>, nread |-> 0, chunks |-> <<>>, cleared |-> 0,
              late_tx |-> 0, ndone |-> 0, irq_in_begin |-> FALSE,
              hot |-> FALSE ] ]

mchp_corespi_disable(s) == [s EXCEPT !.control.enable = 0]

mchp_corespi_enable_ints(s) ==
  LET s1 == mchp_corespi_disable(s)
      s2 == [s1 EXCEPT !.control.ints = INT_ENABLE_MASK]
  IN  [s2 EXCEPT !.control.enable = 1]

\* the frame count the controller runs: FRAMESUP's upper bits and CONTROL's
\* lower 16
HwFrameCount(s) == s.framesup + s.control.framecnt

\* lenpart is a u16: len & 0xffff0000 is cut to its low 16 bits when stored.
\* Writing the frame count restarts the controller's frame counter.
mchp_corespi_set_xfer_size(s, len) ==
  LET s1 == mchp_corespi_disable(s)
      lo == len % U16
      s2 == [s1 EXCEPT !.control.framecnt = lo]
      hi == (len - (len % U16)) % U16
      s3 == [s2 EXCEPT !.framesup = hi, !.frames_sent = 0]
  IN  [s3 EXCEPT !.control.enable = 1]

\* mchp_corespi_set_xfer_size statement by statement, for a caller that can
\* be interrupted inside it.  The argument and the local control are kept in
\* s.len and s.control_local.  A write of the frame count has no effect while
\* the controller is enabled (comment at lines 183-186); log.hot notes a
\* write of a new frame count made while it is.
set_xfer_size_disable(s, len) ==
  [mchp_corespi_disable(s) EXCEPT !.len = len]

set_xfer_size_count(s) ==
  LET control == [s.control EXCEPT !.framecnt = s.len % U16]
      enabled == s.control.enable = 1
  IN  [s EXCEPT !.control = IF enabled THEN @ ELSE control,
                !.frames_sent = IF enabled THEN @ ELSE 0,
                !.control_local = control,
                !.log.hot = @ \/ (enabled /\ control.framecnt # s.control.framecnt)]

set_xfer_size_framesup(s) ==
  LET hi == (s.len - (s.len % U16)) % U16
      enabled == s.control.enable = 1
  IN  [s EXCEPT !.framesup = IF enabled THEN @ ELSE hi,
                !.log.hot = @ \/ (enabled /\ hi # s.framesup)]

set_xfer_size_enable(s) ==
  LET control == [s.control_local EXCEPT !.enable = 1]
      enabled == s.control.enable = 1
  IN  [s EXCEPT !.control = IF enabled
                            THEN [control EXCEPT !.framecnt = s.control.framecnt]
                            ELSE control,
                !.log.hot = @ \/ (enabled /\ control.framecnt # s.control.framecnt),
                !.len = 0,
                !.control_local = NULL]

mchp_corespi_set_framesize(s, bt) ==
  LET s1 == mchp_corespi_disable(s)
      s2 == [s1 EXCEPT !.frame_size = bt]
  IN  [s2 EXCEPT !.control.enable = 1]

\* control |= CONTROL_MASTER (line 279) is overwritten by the re-read of
\* REG_CONTROL at line 298 and never reaches the register
mchp_corespi_init(s) ==
  LET s1 == mchp_corespi_set_framesize(s, DEFAULT_FRAMESIZE)
      s2 == [s1 EXCEPT !.control.sps = 1, !.control.bigfifo = 1]
      s3 == mchp_corespi_enable_ints(s2)
      s4 == [s3 EXCEPT !.slave_select = SSELOUT + SSEL_DIRECT]
  IN  [s4 EXCEPT !.control.reset = 0, !.control.enable = 1]

mchp_corespi_set_clk_gen(s) ==
  LET s1 == mchp_corespi_disable(s)
      s2 == [s1 EXCEPT !.control.clkmode = IF s.clk_mode # 0 THEN 1 ELSE 0,
                       !.reg_clk_gen = s.clk_gen]
  IN  [s2 EXCEPT !.control.enable = 1]

\* ------------------------------------------------------------ chip select
\* set_cs without the clearing of the line's bit (line 250 left out)
set_cs_no_clear(s, cs, disable) ==
  [s EXCEPT !.slave_select = IF ~disable THEN OrBit(@, Pow2(cs)) ELSE @,
            !.last_cs = <<cs, disable>>]

\* reg &= ~BIT(cs); reg |= !disable << cs.  last_cs notes the call.
mchp_corespi_set_cs(s, cs, disable) ==
  LET reg == ClrBit(s.slave_select, Pow2(cs))
  IN  [s EXCEPT !.slave_select = IF ~disable THEN OrBit(reg, Pow2(cs))
                                 ELSE reg,
                !.last_cs = <<cs, disable>>]

\* an active-high device's line is set at setup
mchp_corespi_setup(s, cs, cs_high) ==
  IF cs_high THEN [s EXCEPT !.slave_select = OrBit(@, Pow2(cs))] ELSE s

\* ------------------------------------------------------------ FIFO pump
\* read_fifo reading RX_DATA only when there is a buffer to store into
read_fifo_skip_unbuffered(s) ==
  LET fifo_max == Min(s.rx_len, FIFO_DEPTH)
      i == IF fifo_max > 0 THEN Min(fifo_max, Len(s.rx_fifo)) ELSE 0
      data == SubSeq(s.rx_fifo, 1, i)
  IN  IF s.rx_buf # NULL
      THEN [s EXCEPT !.rx_fifo = SubSeq(s.rx_fifo, i + 1, Len(s.rx_fifo)),
                     !.rx_mem = @ \o data,
                     !.rx_buf = @ + i,
                     !.rx_len = @ - i,
                     !.pending = @ - i,
                     !.log.nread = @ + i]
      ELSE [s EXCEPT !.rx_len = @ - i, !.pending = @ - i]

\* The loop stops at fifo_max or when STATUS says the RX FIFO is empty.
mchp_corespi_read_fifo(s) ==
  LET fifo_max == Min(s.rx_len, FIFO_DEPTH)
      i == IF fifo_max > 0 THEN Min(fifo_max, Len(s.rx_fifo)) ELSE 0
      data == SubSeq(s.rx_fifo, 1, i)
  IN  [s EXCEPT !.rx_fifo = SubSeq(s.rx_fifo, i + 1, Len(s.rx_fifo)),
                !.rx_mem = IF s.rx_buf # NULL THEN @ \o data ELSE @,
                !.rx_buf = IF s.rx_buf # NULL THEN @ + i ELSE @,
                !.rx_len = @ - i,
                !.pending = @ - i,
                !.log.nread = @ + i]

\* write_fifo's loop with 0 for the filler byte of line 218
write_fifo_loop_zero_filler(s) ==
  LET fifo_max == Min(s.tx_len, FIFO_DEPTH)
      s1 == mchp_corespi_set_xfer_size(s, fifo_max)
      i == IF fifo_max > 0
           THEN Min(fifo_max, FIFO_DEPTH - Len(s.tx_fifo)) ELSE 0
      bytes == [k \in 1..i |->
                  IF s.tx_buf # NULL THEN TxData(s.tx_buf + k) ELSE 0]
  IN  [s1 EXCEPT !.tx_fifo = @ \o bytes,
                 !.tx_buf = IF s.tx_buf # NULL THEN @ + i ELSE @,
                 !.i = i,
                 !.log.tx = @ \o bytes,
                 !.log.chunks = Append(@, [rem |-> s.tx_len,
                                           fc |-> HwFrameCount(s1), n |-> i])]

\* write_fifo up to the end of its loop: the frame count is programmed, then
\* bytes are pushed until fifo_max or until STATUS says the TX FIFO is full;
\* the local i is kept in s.i
write_fifo_loop(s) ==
  LET fifo_max == Min(s.tx_len, FIFO_DEPTH)
      s1 == mchp_corespi_set_xfer_size(s, fifo_max)
      i == IF fifo_max > 0
           THEN Min(fifo_max, FIFO_DEPTH - Len(s.tx_fifo)) ELSE 0
      bytes == [k \in 1..i |->
                  IF s.tx_buf # NULL THEN TxData(s.tx_buf + k) ELSE FILLER]
  IN  [s1 EXCEPT !.tx_fifo = @ \o bytes,
                 !.tx_buf = IF s.tx_buf # NULL THEN @ + i ELSE @,
                 !.i = i,
                 !.log.tx = @ \o bytes,
                 !.log.chunks = Append(@, [rem |-> s.tx_len,
                                           fc |-> HwFrameCount(s1), n |-> i])]

\* the two statements after the loop
write_fifo_account(s) ==
  [s EXCEPT !.tx_len = @ - s.i, !.pending = @ + s.i, !.i = 0]

mchp_corespi_write_fifo(s) == write_fifo_account(write_fifo_loop(s))

\* ------------------------------------------------------------ interrupt
\* the handler's result: the state it leaves and whether it called
\* spi_finalize_current_transfer
int_clear(s, cause) ==
  [s EXCEPT !.mis = ClrBit(@, cause), !.log.cleared = OrBit(@, cause)]

irq_txdone(s) ==
  LET s0 == int_clear(s, INT_TXDONE)
      s1 == [s0 EXCEPT !.log.ndone = @ + 1]
      s2 == IF s1.rx_len # 0 THEN mchp_corespi_read_fifo(s1) ELSE s1
      s3 == IF s2.tx_len # 0 THEN mchp_corespi_write_fifo(s2) ELSE s2
  IN  [s |-> s3, finalise |-> (s3.rx_len = 0)]

mchp_corespi_interrupt(s) ==
  LET intfield == s.mis
      a == IF HasBit(intfield, INT_TXDONE) THEN irq_txdone(s)
           ELSE [s |-> s, finalise |-> FALSE]
      b == IF HasBit(intfield, INT_RXRDY) THEN int_clear(a.s, INT_RXRDY)
           ELSE a.s
      c == IF HasBit(intfield, INT_RX_CHANNEL_OVERFLOW)
           THEN int_clear(b, INT_RX_CHANNEL_OVERFLOW) ELSE b
      d == IF HasBit(intfield, INT_TX_CHANNEL_UNDERRUN)
           THEN int_clear(c, INT_TX_CHANNEL_UNDERRUN) ELSE c
      fault == HasBit(intfield, INT_RX_CHANNEL_OVERFLOW)
               \/ HasBit(intfield, INT_TX_CHANNEL_UNDERRUN)
  IN  IF intfield = 0
      THEN [s |-> s, finalise |-> FALSE, fault |-> FALSE, handled |-> FALSE]
      ELSE [s |-> d, finalise |-> (a.finalise \/ fault), fault |-> fault,
            handled |-> TRUE]

\* ------------------------------------------------------------ clock
\* the search with scheme B's mode stored before its range test (line 449
\* moved above line 446)
calculate_clkgen_early_store(s, clk_hz, target_hz) ==
  IF clk_hz = 0 THEN [ret |-> -EINVAL, s |-> s]
  ELSE
    LET spi_hz == Min(target_hz, clk_hz)
        gen1 == DIV_ROUND_UP(clk_hz, 2 * spi_hz) - 1
        gen0 == fls(DIV_ROUND_UP(clk_hz, spi_hz)) - 1
    IN  IF gen1 > CLK_GEN_MODE1_MAX \/ gen1 <= CLK_GEN_MIN
        THEN IF gen0 > CLK_GEN_MODE0_MAX
             THEN [ret |-> -EINVAL, s |-> [s EXCEPT !.clk_mode = 0]]
             ELSE [ret |-> 0, s |-> [s EXCEPT !.clk_mode = 0, !.clk_gen = gen0]]
        ELSE [ret |-> 0, s |-> [s EXCEPT !.clk_mode = 1, !.clk_gen = gen1]]

\* unsigned long arithmetic; fls() takes the quotient as an unsigned int
mchp_corespi_calculate_clkgen(s, clk_hz, target_hz) ==
  IF clk_hz = 0 THEN [ret |-> -EINVAL, s |-> s]
  ELSE
    LET spi_hz == Min(target_hz, clk_hz)
        gen1 == DIV_ROUND_UP(clk_hz, 2 * spi_hz) - 1
        gen0 == fls(DIV_ROUND_UP(clk_hz, spi_hz)) - 1
    IN  IF gen1 > CLK_GEN_MODE1_MAX \/ gen1 <= CLK_GEN_MIN
        THEN IF gen0 > CLK_GEN_MODE0_MAX
             THEN [ret |-> -EINVAL, s |-> s]
             ELSE [ret |-> 0, s |-> [s EXCEPT !.clk_mode = 0, !.clk_gen = gen0]]
        ELSE [ret |-> 0, s |-> [s EXCEPT !.clk_mode = 1, !.clk_gen = gen1]]

\* ------------------------------------------------------------ transfer_one
\* lines 473-477, on a fresh receive buffer and a fresh session log
transfer_one_fields(s, x) ==
  [s EXCEPT !.tx_buf = IF x.tx THEN 0 ELSE NULL,
            !.rx_buf = IF x.rx THEN 0 ELSE NULL,
            !.tx_len = x.len,
            !.rx_len = x.len,
            !.pending = 0,
            !.rx_mem = <<>>,
            !.log = ResetDev.log]

transfer_one_size(s) ==
  mchp_corespi_set_xfer_size(s, IF s.tx_len > FIFO_DEPTH THEN FIFO_DEPTH
                                ELSE s.tx_len)

mchp_corespi_transfer_one(s, x, clk_hz) ==
  LET c == mchp_corespi_calculate_clkgen(s, clk_hz, x.speed_hz)
      s1 == mchp_corespi_set_clk_gen(c.s)
      s2 == transfer_one_fields(s1, x)
      s3 == transfer_one_size(s2)
      s4 == IF s3.tx_len # 0 THEN mchp_corespi_write_fifo(s3) ELSE s3
  IN  IF c.ret # 0 THEN [ret |-> c.ret, s |-> c.s] ELSE [ret |-> 1, s |-> s4]

\* ------------------------------------------------------------ controller
\* The controller shifts out the next n frames of the TX FIFO.  Each frame's
\* echo arrives: it is stored unless the RX FIFO is full, which raises
\* receive-overflow.  The frame that completes the programmed count raises
\* transfer-done, once per programming of the count.
hw_shift(s, n) ==
  LET room == FIFO_DEPTH - Len(s.rx_fifo)
      kept == Min(n, room)
      fc == HwFrameCount(s)
      counting == s.frames_sent < fc
      sent == IF counting THEN s.frames_sent + n ELSE s.frames_sent
      m1 == IF kept > 0 THEN OrBit(s.mis, INT_RXRDY) ELSE s.mis
      m2 == IF n > room THEN OrBit(m1, INT_RX_CHANNEL_OVERFLOW) ELSE m1
      m3 == IF counting /\ sent = fc THEN OrBit(m2, INT_TXDONE) ELSE m2
  IN  [s EXCEPT !.tx_fifo = SubSeq(@, n + 1, Len(@)),
                !.rx_fifo = @ \o [k \in 1..kept |-> Echo(s.tx_fifo[k])],
                !.frames_sent = sent,
                !.mis = m3]

\* the frames the controller shifts next: what is in the TX FIFO, up to the
\* end of the programmed count when that is still ahead
HwReady(s) ==
  IF s.control.enable = 1
  THEN IF s.frames_sent < HwFrameCount(s)
       THEN Min(Len(s.tx_fifo), HwFrameCount(s) - s.frames_sent)
       ELSE Len(s.tx_fifo)
  ELSE 0

\* ------------------------------------------------------------ inputs
\* nothing, one frame, one full chunk and a part, and three chunks
Lens == {0, 1, FIFO_DEPTH + 8, MaxLen}
\* 20 MHz source clock; 1 MHz is attainable, 100 Hz is not
MainClk == 20 * 1000000
Speeds == {1000000, 100}
\* a transfer has a transmit buffer, a receive buffer or both
Xfers == {x \in [len : Lens, tx : BOOLEAN, rx : BOOLEAN, speed_hz : Speeds] :
            x.tx \/ x.rx}
NoXfer == [len |-> 0, tx |-> FALSE, rx |-> FALSE, speed_hz |-> 0]

\* ------------------------------------------------------------ actions
Init ==
  /\ clk_rate = MainClk
  /\ dev = mchp_corespi_init(ResetDev)
  /\ xfer = NoXfer
  /\ sess = "Idle"
  /\ ret = 0
  /\ finalized = 0
  /\ status = "none"
  /\ faults = 0
  /\ pc = "idle"
  /\ nsess = 0

\* the caller is past transfer_one's first write of a session field (line
\* 473) and has not returned
InBegin == {"size", "size_count", "size_framesup", "size_enable",
            "fill", "account", "ret"}

\* The interrupt handler, run to its end.  spi_finalize_current_transfer
\* takes no status: the core is told the transfer is done.
Irq ==
  /\ dev.mis # 0
  /\ LET r == mchp_corespi_interrupt(dev)
         wrote == Len(r.s.log.tx) - Len(dev.log.tx)
         late == (sess = "Streaming" /\ r.fault) \/ sess = "Faulted"
     IN  /\ dev' = [r.s EXCEPT !.i = dev.i,
                               !.log.late_tx = IF late THEN @ + wrote ELSE @,
                               !.log.irq_in_begin = @ \/ pc \in InBegin]
         /\ IF r.finalise
            THEN /\ finalized' = Min(finalized + 1, MaxFinal)
                 /\ status' = "ok"
                 /\ sess' = IF sess = "Streaming"
                            THEN IF r.fault THEN "Faulted" ELSE "Complete"
                            ELSE sess
            ELSE UNCHANGED <<finalized, status, sess>>
  /\ UNCHANGED <<clk_rate, xfer, ret, faults, pc, nsess>>

\* the controller runs for a while: up to Burst frames between two looks of
\* the software
HwShift ==
  /\ HwReady(dev) > 0
  /\ dev' = hw_shift(dev, Min(Burst, HwReady(dev)))
  /\ UNCHANGED <<clk_rate, xfer, sess, ret, finalized, status, faults, pc, nsess>>

\* the controller raises a fault cause
HwFault(cause) ==
  /\ faults < MaxFaults
  /\ faults' = faults + 1
  /\ dev' = [dev EXCEPT !.mis = OrBit(@, cause)]
  /\ UNCHANGED <<clk_rate, xfer, sess, ret, finalized, status, pc, nsess>>

FaultCauses == {INT_RX_CHANNEL_OVERFLOW, INT_TX_CHANNEL_UNDERRUN}

\* transfer_one runs in the SPI core's thread with interrupts enabled and
\* takes no lock: the handler can run between any two of its statements.
\* The SPI core calls it for one transfer at a time, the next one only after
\* the previous one was finalized.
TBegin(x) ==
  /\ pc = "idle"
  /\ sess # "Streaming"
  /\ nsess < MaxSessions
  /\ nsess' = nsess + 1
  /\ LET c == mchp_corespi_calculate_clkgen(dev, clk_rate, x.speed_hz)
     IN  IF c.ret # 0
         THEN /\ ret' = c.ret
              /\ dev' = c.s
              /\ UNCHANGED <<xfer, sess, finalized, status, pc>>
         ELSE /\ dev' = mchp_corespi_set_clk_gen(c.s)
              /\ xfer' = x
              /\ sess' = "Streaming"
              /\ finalized' = 0
              /\ status' = "in_progress"
              /\ pc' = "fields"
              /\ ret' = ret
  /\ UNCHANGED <<clk_rate, faults>>

TFields ==
  /\ pc = "fields"
  /\ dev' = transfer_one_fields(dev, xfer)
  /\ pc' = "size"
  /\ UNCHANGED <<clk_rate, xfer, sess, ret, finalized, status, faults, nsess>>

TSize ==
  /\ pc = "size"
  /\ dev' = transfer_one_size(dev)
  /\ pc' = IF dev.tx_len # 0 THEN "fill" ELSE "ret"
  /\ UNCHANGED <<clk_rate, xfer, sess, ret, finalized, status, faults, nsess>>

TFill ==
  /\ pc = "fill"
  /\ dev' = write_fifo_loop(dev)
  /\ pc' = "account"
  /\ UNCHANGED <<clk_rate, xfer, sess, ret, finalized, status, faults, nsess>>

TAccount ==
  /\ pc = "account"
  /\ dev' = write_fifo_account(dev)
  /\ pc' = "ret"
  /\ UNCHANGED <<clk_rate, xfer, sess, ret, finalized, status, faults, nsess>>

TRet ==
  /\ pc = "ret"
  /\ ret' = 1
  /\ pc' = "idle"
  /\ UNCHANGED <<clk_rate, dev, xfer, sess, finalized, status, faults, nsess>>

Next ==
  \/ \E x \in Xfers : TBegin(x)
  \/ TFields
  \/ TSize
  \/ TFill
  \/ TAccount
  \/ TRet
  \/ Irq
  \/ HwShift
  \/ \E c \in FaultCauses : HwFault(c)

Spec == Init /\ [][Next]_vars

\* ------------------------------------------------------------ registers
\* the same system with the set_xfer_size call of transfer_one (line 479)
\* taken statement by statement: the handler can run inside it too
TSizeDisable ==
  /\ pc = "size"
  /\ dev' = set_xfer_size_disable(dev, IF dev.tx_len > FIFO_DEPTH
                                       THEN FIFO_DEPTH ELSE dev.tx_len)
  /\ pc' = "size_count"
  /\ UNCHANGED <<clk_rate, xfer, sess, ret, finalized, status, faults, nsess>>

TSizeCount ==
  /\ pc = "size_count"
  /\ dev' = set_xfer_size_count(dev)
  /\ pc' = "size_framesup"
  /\ UNCHANGED <<clk_rate, xfer, sess, ret, finalized, status, faults, nsess>>

TSizeFramesup ==
  /\ pc = "size_framesup"
  /\ dev' = set_xfer_size_framesup(dev)
  /\ pc' = "size_enable"
  /\ UNCHANGED <<clk_rate, xfer, sess, ret, finalized, status, faults, nsess>>

TSizeEnable ==
  /\ pc = "size_enable"
  /\ dev' = set_xfer_size_enable(dev)
  /\ pc' = IF dev.tx_len # 0 THEN "fill" ELSE "ret"
  /\ UNCHANGED <<clk_rate, xfer, sess, ret, finalized, status, faults, nsess>>

RegNext ==
  \/ \E x \in Xfers : TBegin(x)
  \/ TFields
  \/ TSizeDisable
  \/ TSizeCount
  \/ TSizeFramesup
  \/ TSizeEnable
  \/ TFill
  \/ TAccount
  \/ TRet
  \/ Irq
  \/ HwShift
  \/ \E c \in FaultCauses : HwFault(c)

RegSpec == Init /\ [][RegNext]_vars

\* ------------------------------------------------------------ exclusion
\* the same system when no interrupt is taken inside transfer_one: the call
\* is one step
TransferOne(x) ==
  /\ pc = "idle"
  /\ sess # "Streaming"
  /\ nsess < MaxSessions
  /\ LET r == mchp_corespi_transfer_one(dev, x, clk_rate)
     IN  /\ dev' = r.s
         /\ ret' = r.ret
         /\ IF r.ret = 1
            THEN /\ xfer' = x
                 /\ sess' = "Streaming"
                 /\ finalized' = 0
                 /\ status' = "in_progress"
            ELSE UNCHANGED <<xfer, sess, finalized, status>>
  /\ nsess' = nsess + 1
  /\ UNCHANGED <<clk_rate, faults, pc>>

NextExcl ==
  \/ \E x \in Xfers : TransferOne(x)
  \/ Irq
  \/ HwShift
  \/ \E c \in FaultCauses : HwFault(c)

SpecExcl == Init /\ [][NextExcl]_vars

\* ------------------------------------------------------------ chip select
\* The SPI core calls set_cs and setup from its message pump, between
\* transfer_one calls; one echo transfer of a chunk and a part runs under it.
CsLines == 0 .. (MAX_CS - 1)

SetCs(cs, disable) ==
  /\ pc = "idle"
  /\ dev' = mchp_corespi_set_cs(dev, cs, disable)
  /\ UNCHANGED <<clk_rate, xfer, sess, ret, finalized, status, faults, pc, nsess>>

Setup(cs, cs_high) ==
  /\ pc = "idle"
  /\ dev' = mchp_corespi_setup(dev, cs, cs_high)
  /\ UNCHANGED <<clk_rate, xfer, sess, ret, finalized, status, faults, pc, nsess>>

CsXfer == [len |-> FIFO_DEPTH + 8, tx |-> TRUE, rx |-> TRUE, speed_hz |-> MainClk \div 20]

CsTransfer ==
  /\ nsess = 0
  /\ TransferOne(CsXfer)

CsNext ==
  \/ \E cs \in CsLines, disable \in BOOLEAN : SetCs(cs, disable)
  \/ \E cs \in CsLines : Setup(cs, TRUE)
  \/ CsTransfer
  \/ Irq
  \/ HwShift

CsSpec == Init /\ [][CsNext]_vars

\* ------------------------------------------------------------ divisor search
\* source clock rates and targets of the divisor search: the small ones, the
\* scenario's 20 MHz and 1 MHz, and the edges of scheme B's range
ClkRates == (1..MaxClk) \cup {65535, 65536, 131072, 20000000}
Targets == (1..MaxClk) \cup {100, 1000000, 20000000}

ClkInit ==
  /\ clk_rate \in ClkRates
  /\ dev = mchp_corespi_init(ResetDev)
  /\ xfer = NoXfer
  /\ sess = "Idle"
  /\ ret = 0
  /\ finalized = 0
  /\ status = "none"
  /\ faults = 0
  /\ pc = "idle"
  /\ nsess = 0

\* mchp_corespi_calculate_clkgen applied to a target
ClkCalc(t) ==
  /\ LET r == mchp_corespi_calculate_clkgen(dev, clk_rate, t)
     IN  /\ dev' = r.s
         /\ ret' = r.ret
  /\ xfer' = [NoXfer EXCEPT !.speed_hz = t]
  /\ UNCHANGED <<clk_rate, sess, finalized, status, faults, pc, nsess>>

ClkNext == \E t \in Targets : ClkCalc(t)

ClkSpec == ClkInit /\ [][ClkNext]_vars

\* ------------------------------------------------------------ frame count
\* frame counts handed to mchp_corespi_set_xfer_size: the small ones and the
\* ones around and above 16 bits
FrameCounts ==
  (0..MaxCount) \cup {65535, 65536, 65537, 131072 + FIFO_DEPTH, 2147483647}

\* mchp_corespi_set_xfer_size applied to a frame count
SizeCalc(len) ==
  /\ dev' = mchp_corespi_set_xfer_size(dev, len)
  /\ xfer' = [NoXfer EXCEPT !.len = len]
  /\ pc' = "sized"
  /\ UNCHANGED <<clk_rate, sess, ret, finalized, status, faults, nsess>>

SizeNext == \E len \in FrameCounts : SizeCalc(len)

SizeSpec == Init /\ [][SizeNext]_vars

\* ------------------------------------------------------------ properties
\* the chunk sizes of a transfer of rem bytes: min(remaining, 32) each
RECURSIVE ChunkPlan(_)
ChunkPlan(rem) ==
  IF rem <= 0 THEN <<>>
  ELSE <<Min(rem, FIFO_DEPTH)>> \o ChunkPlan(rem - Min(rem, FIFO_DEPTH))

\* the caller's transmit data, all len bytes of it
TxImage(len) == [k \in 1..len |-> TxData(k)]

\* what the handler is about to do
IrqR == mchp_corespi_interrupt(dev)

\* C1: with both buffers present, a loopback peer and a controller that
\* raises no fault cause, a transfer of L >= 1 bytes writes tx to the TX FIFO
\* in order, in chunks of min(remaining, 32): the first by transfer_one, each
\* later one by one transfer-done interrupt; and when completion is
\* signalled, the receive buffer holds exactly the L bytes of tx.
C1_EchoTransfer ==
  (faults = 0 /\ sess \in {"Streaming", "Complete"} /\ pc # "fields"
     /\ xfer.len >= 1 /\ xfer.tx /\ xfer.rx)
  => LET plan == ChunkPlan(xfer.len)
         nch == Len(dev.log.chunks)
         ntx == Len(dev.log.tx)
     IN  /\ nch <= Len(plan)
         /\ nch <= dev.log.ndone + 1
         /\ \A j \in 1..nch : dev.log.chunks[j].n = plan[j]
         /\ ntx <= xfer.len
         /\ dev.log.tx = SubSeq(TxImage(xfer.len), 1, ntx)
         /\ sess = "Complete" =>
              /\ nch = Len(plan)
              /\ dev.log.tx = TxImage(xfer.len)
              /\ dev.rx_mem = TxImage(xfer.len)

\* C2: when the handler signals the normal completion of a transfer
\* (transfer-done handled, no fault cause raised), it leaves pending = 0,
\* tx_len = 0 and rx_len = 0.
C2_NormalCompletion ==
  [][(Irq /\ sess = "Streaming" /\ IrqR.finalise /\ ~IrqR.fault)
       => (dev'.pending = 0 /\ dev'.tx_len = 0 /\ dev'.rx_len = 0)]_vars

\* C3: from a successful transfer_one on, tx_len and rx_len never go below
\* zero and never grow, pending is the bytes written to the TX FIFO minus
\* the bytes read from the RX FIFO, and pending never goes below zero.
C3_Ledger ==
  [][(pc' = "idle" /\ sess' # "Idle")
       => /\ dev'.tx_len >= 0 /\ dev'.rx_len >= 0 /\ dev'.pending >= 0
          /\ dev'.pending = Len(dev'.log.tx) - dev'.log.nread
          /\ pc = "idle" =>
               (dev'.tx_len <= dev.tx_len /\ dev'.rx_len <= dev.rx_len)]_vars

\* C4: once a fault cause is observed, no byte is written to the TX FIFO:
\* not by the handler invocation that observes it, not by a later one.
C4_NoWriteAfterFault == dev.log.late_tx = 0

\* C5: a transfer that ended on a fault cause is reported to the caller
\* with a failure status.
C5_FaultReported == sess = "Faulted" => status = "failed"

\* C6: Complete and Faulted are terminal: a handler invocation in either
\* changes none of tx_len, rx_len, pending and the buffer cursors, and
\* signals no completion; a transfer's completion is signalled at most once.
C6_Terminal ==
  [][(Irq /\ sess \in {"Complete", "Faulted"})
       => /\ dev'.tx_len = dev.tx_len /\ dev'.rx_len = dev.rx_len
          /\ dev'.pending = dev.pending
          /\ dev'.tx_buf = dev.tx_buf /\ dev'.rx_buf = dev.rx_buf
          /\ dev'.rx_mem = dev.rx_mem
          /\ finalized' = finalized
          /\ finalized' <= 1]_vars

\* C7: with a loopback peer and a controller that raises no fault cause, a
\* Streaming transfer of L >= 1 bytes reaches Complete or Faulted.  In the
\* form a finite run refutes: while it is Streaming and transfer_one has
\* returned, an interrupt is raised or the controller has a frame to shift.
C7_Progress ==
  (faults = 0 /\ sess = "Streaming" /\ xfer.len >= 1 /\ pc = "idle")
  => (dev.mis # 0 \/ HwReady(dev) > 0)

\* C8: the handler does not run between transfer_one's first write of a
\* session field and its return.
C8_HandlerExcluded == ~dev.log.irq_in_begin

\* the rate a stored (scheme, divisor) gives is clk / EffDiv: scheme A
\* (clk_mode 1) divides by 2d+1, scheme B (clk_mode 0) by 2^(d+1)
EffDiv(mode, d) == IF mode = 1 THEN 2 * d + 1 ELSE Pow2(d + 1)

\* clk / m <= target over the rationals (target is an integer)
RateAtMost(clk, m, target) == DIV_ROUND_UP(clk, m) <= target

\* the search has been applied to a target, and succeeded
ClkApplied == xfer.speed_hz > 0
ClkFound == ClkApplied /\ ret = 0

\* C9: when the divisor search succeeds, the rate of the stored scheme and
\* divisor does not exceed the target.
C9_RateBound ==
  ClkFound => RateAtMost(clk_rate, EffDiv(dev.clk_mode, dev.clk_gen),
                         xfer.speed_hz)

\* the reference search: the smallest d in 0..255 of scheme A whose rate is
\* at most the target; failing that the smallest d in 0..15 of scheme B
SetMin(S) == CHOOSE m \in S : \A n \in S : m <= n
RefSearch(clk, target) ==
  LET A == {d \in CLK_GEN_MIN..CLK_GEN_MODE1_MAX :
              RateAtMost(clk, EffDiv(1, d), target)}
      B == {d \in CLK_GEN_MIN..CLK_GEN_MODE0_MAX :
              RateAtMost(clk, EffDiv(0, d), target)}
  IN  IF A # {} THEN [found |-> TRUE, mode |-> 1, gen |-> SetMin(A)]
      ELSE IF B # {} THEN [found |-> TRUE, mode |-> 0, gen |-> SetMin(B)]
      ELSE [found |-> FALSE, mode |-> 0, gen |-> 0]

\* C10: the stored scheme and divisor are the ones the reference search
\* finds.
C10_MatchesReference ==
  ClkFound =>
    [found |-> TRUE, mode |-> dev.clk_mode, gen |-> dev.clk_gen]
      = RefSearch(clk_rate, xfer.speed_hz)

\* C11: the divisor search fails with -EINVAL exactly when no d in 0..255
\* of scheme A and no d in 0..15 of scheme B gives a rate at most the
\* target; it succeeds whenever one does, also when only scheme B's d = 15
\* (division by 2^16) does.
C11_FailsIffNoDivisor ==
  ClkApplied =>
    /\ ret \in {0, -EINVAL}
    /\ (ret = -EINVAL) <=> ~RefSearch(clk_rate, xfer.speed_hz).found

\* C12: a transfer_one that fails with -EINVAL leaves every register, every
\* session field and both clock fields as they were: the state after the
\* failed call is the state before it.
C12_FailedBeginNoChange ==
  [][(pc = "idle" /\ pc' = "idle" /\ nsess' = nsess + 1)
       => (ret' = -EINVAL /\ dev' = dev)]_vars

\* a transfer completed at scheme A's d = 9, then a transfer_one failed
C12_Witness ==
  /\ ret = -EINVAL /\ nsess = 2 /\ sess = "Complete"
  /\ dev.clk_mode = 1 /\ dev.clk_gen = 9 /\ dev.reg_clk_gen = 9
  /\ dev.control.clkmode = 1

\* C13: a transfer_one of length 0 with an attainable clock completes at
\* once: when it has returned, completion has been signalled, with no
\* interrupt needed and no access to TX_DATA or RX_DATA.
C13_ZeroLength ==
  (sess \in {"Streaming", "Complete", "Faulted"} /\ xfer.len = 0
     /\ pc = "idle")
  => /\ sess = "Complete"
     /\ dev.log.tx = <<>>
     /\ dev.log.nread = 0

\* the caller is between write_fifo's loop and its `tx_len -= i`
Unaccounted == IF pc = "account" THEN dev.i ELSE 0

\* C14: in a transfer without a transmit buffer every value written to
\* TX_DATA is 0xAA, and tx_len goes down by one for every byte pushed, as
\* it does with a transmit buffer: len - tx_len is the number of bytes
\* written, in both kinds of transfer.
C14_FillerBytes ==
  (sess # "Idle" /\ pc # "fields")
  => /\ xfer.len - dev.tx_len = Len(dev.log.tx) - Unaccounted
     /\ ~xfer.tx =>
          /\ dev.tx_buf = NULL
          /\ \A k \in 1..Len(dev.log.tx) : dev.log.tx[k] = FILLER

\* the longest transfer has completed without a transmit buffer: MaxLen
\* filler bytes were pushed
C14_Witness ==
  /\ sess = "Complete" /\ ~xfer.tx /\ xfer.len = MaxLen /\ pc = "idle"
  /\ dev.tx_len = 0
  /\ dev.log.tx = [k \in 1..MaxLen |-> FILLER]

SselBits == 0 .. 9

\* C16: set_cs on line k changes only bit k of SLAVE_SELECT, to 1 when
\* asserting and to 0 when deasserting; the other seven select bits, the
\* direct-mode and output-enable bits, every other register and every session
\* field stay as they were.
C16_ChipSelect ==
  [][\A k \in CsLines, disable \in BOOLEAN :
       SetCs(k, disable)
       => /\ HasBit(dev'.slave_select, Pow2(k)) = ~disable
          /\ \A j \in SselBits \ {k} :
               HasBit(dev'.slave_select, Pow2(j))
                 = HasBit(dev.slave_select, Pow2(j))
          /\ dev'.slave_select < Pow2(10)
          /\ [dev' EXCEPT !.slave_select = 0, !.last_cs = <<>>]
               = [dev EXCEPT !.slave_select = 0, !.last_cs = <<>>]]_vars

\* line 3 was deasserted last, with line 7 asserted and a transfer under way
C16_Witness ==
  /\ dev.last_cs = <<3, TRUE>>
  /\ ~HasBit(dev.slave_select, Pow2(3)) /\ HasBit(dev.slave_select, Pow2(7))
  /\ HasBit(dev.slave_select, SSEL_DIRECT) /\ HasBit(dev.slave_select, SSELOUT)
  /\ sess = "Streaming" /\ dev.pending = FIFO_DEPTH

\* C17: before each chunk is pushed the frame count is programmed to
\* min(remaining_tx, FIFO_DEPTH) and that many bytes are then written to
\* TX_DATA; the clock divisor is programmed before the first byte is pushed.
C17_ChunkProgrammed ==
  (sess # "Idle" /\ pc # "fields")
  => /\ \A j \in 1..Len(dev.log.chunks) :
          /\ dev.log.chunks[j].fc = Min(dev.log.chunks[j].rem, FIFO_DEPTH)
          /\ dev.log.chunks[j].n = dev.log.chunks[j].fc
     /\ dev.log.tx # <<>>
          => /\ dev.reg_clk_gen = dev.clk_gen
             /\ dev.control.clkmode = dev.clk_mode

\* C18: for every frame count len, mchp_corespi_set_xfer_size stores the low
\* 16 bits of len in the frame-count field of CONTROL and len with its low 16
\* bits cleared in FRAMESUP, so that the two registers together give len.
C18_FrameCountSplit ==
  pc = "sized"
  => /\ dev.control.framecnt = xfer.len % U16
     /\ dev.framesup = xfer.len - (xfer.len % U16)
     /\ dev.framesup + dev.control.framecnt = xfer.len

\* C19: every write that changes the frame count or the frame size is made
\* while CONTROL_ENABLE is clear and the helper sets it again before it
\* returns, so that CONTROL_ENABLE and the four interrupt-enable bits are set
\* whenever transfer_one or the interrupt handler returns.
C19_EnabledOnReturn ==
  /\ [](~dev.log.hot)
  /\ [][(Irq \/ TRet) => /\ dev'.control.enable = 1
                         /\ dev'.control.ints = INT_ENABLE_MASK]_vars

\* C20: from the moment transfer_one has initialised the session until the
\* next transfer_one, after every completed transfer_one or handler step
\* pending = rx_len - tx_len (hence tx_len <= rx_len, and rx_len = 0 implies
\* tx_len = 0 whenever pending >= 0).
C20_PendingLedger ==
  (sess # "Idle" /\ pc = "idle")
  => /\ dev.pending = dev.rx_len - dev.tx_len
     /\ dev.tx_len <= dev.rx_len
     /\ (dev.rx_len = 0 /\ dev.pending >= 0) => dev.tx_len = 0

\* C21: with a controller that raises transfer-done only after every frame of
\* the programmed chunk is shifted and its echo is in the RX FIFO, pending
\* never exceeds FIFO_DEPTH, the RX FIFO never holds more than FIFO_DEPTH
\* undrained bytes, and the pump itself causes no receive overflow.
C21_FifoBound ==
  /\ dev.pending <= FIFO_DEPTH
  /\ Len(dev.rx_fifo) <= FIFO_DEPTH
  /\ faults = 0 => ~HasBit(dev.mis, INT_RX_CHANNEL_OVERFLOW)
====
